---- MODULE Spec2Model ----
(***************************************************************************)
(* The terminal "now playing" display of sptsong: the event loop of        *)
(* SpotifyDisplay.Run with the helpers it drives (getTerminalSize,         *)
(* getMetadata, downloadArtwork, displayImage, drawProgressBar,            *)
(* handleKeyboard).  The repository holds two builds of the program,       *)
(* src/main.go and src/unnamed/part_000; the variable build says which one *)
(* a behaviour runs, and every operator that differs between them takes    *)
(* the build as its first argument.                                        *)
(*                                                                         *)
(* Strings the code inspects are sequences of one-character strings.       *)
(***************************************************************************)
EXTENDS Integers, Sequences, FiniteSets, TLC

VARIABLES
    build,            \* which source file the behaviour runs
    pc,               \* where Run is: start, select, metadata, download, render, exited
    horizontalAlign,  \* sd.horizontalAlign
    verticalAlign,    \* sd.verticalAlign
    currentArtURL,    \* sd.currentArtURL
    cursorVisible,    \* the terminal cursor is shown
    termboxOpen,      \* between termbox.Init and termbox.Close
    logOpen,          \* the log file is open (main.go only)
    screen,           \* what was written at each origin since the last clear
    producer,         \* the input goroutine: Polling, or the event it is sending
    sigChan,          \* a signal waits in sigChan (capacity 1)
    term,             \* the tick's local term (TerminalSize), NoTerm outside a tick
    metadata,         \* result of the latest getMetadata call
    exitCause,        \* why Run was left, "" while it runs
    run,              \* history: the ArtURL the latest successful ticks reported
                      \* and how many in a row did, since the last alignment key
    forced,           \* history: an alignment key cleared the cached reference
                      \* and no artwork fetch was started since
    ignored,          \* history: the loop's latest iteration took an event
                      \* that is no quit, arrow or center key
    fetch,            \* history: the reference of the latest downloadArtwork
                      \* call unless its image was drawn, what currentArtURL
                      \* was before its tick (while the call runs) and whether
                      \* it failed (until the next tick: in the call or in
                      \* the render)
    shown,            \* history: a tick has drawn a frame since Run started
    probe             \* inputs and result of the pure-function specifications

vars == <<build, pc, horizontalAlign, verticalAlign, currentArtURL, cursorVisible,
          termboxOpen, logOpen, screen, producer, sigChan, term,
          metadata, exitCause, run, forced, ignored, fetch, shown, probe>>

(***************************************************************************)
(* Program constants                                                       *)
(***************************************************************************)
minWidth == 60
contentHeight == 9
margin == 2
BarWidth == 40
UsPerSecond == 1000000

Builds == {"main.go", "part_000"}

(***************************************************************************)
(* Bounds of the model                                                     *)
(***************************************************************************)
MaxCols == 64       \* terminal widths 0..MaxCols in SpecGeom
MaxRows == 12       \* terminal heights 0..MaxRows in SpecGeom
MaxSeconds == 44    \* lengths and positions 0..MaxSeconds in SpecBar

\* termbox.Size() as the event loop sees it (SpecGeom covers the sizes
\* 0..MaxCols x 0..MaxRows, the ones below minWidth x contentHeight included).
TermSizes == {<<80, 24>>}

(***************************************************************************)
(* Strings                                                                 *)
(***************************************************************************)
Quote == "\""
CDNPrefix == <<"h","t","t","p","s",":","/","/","i",".","s","c","d","n",".",
               "c","o","/","i","m","a","g","e","/">>
FilePrefix == <<"f","i","l","e",":","/","/">>
UnknownArtist == <<"U","n","k","n","o","w","n"," ","A","r","t","i","s","t">>
HeaderText == <<"N","o","w"," ","P","l","a","y","i","n","g">>

HasPrefix(s, p) == Len(s) >= Len(p) /\ SubSeq(s, 1, Len(p)) = p

TrimPrefix(s, p) == IF HasPrefix(s, p) THEN SubSeq(s, Len(p) + 1, Len(s)) ELSE s

RECURSIVE TrimLeft(_, _)
TrimLeft(s, c) == IF s # <<>> /\ Head(s) = c THEN TrimLeft(Tail(s), c) ELSE s

RECURSIVE TrimRight(_, _)
TrimRight(s, c) ==
    IF s # <<>> /\ s[Len(s)] = c THEN TrimRight(SubSeq(s, 1, Len(s) - 1), c) ELSE s

\* strings.Trim(s, c) for a one-character cutset
Trim(s, c) == TrimRight(TrimLeft(s, c), c)

Repeat(c, n) == [i \in 1..n |-> c]

\* Go's integer division and remainder: truncation toward zero.
TruncDiv(a, b) == IF a >= 0 THEN a \div b ELSE -((-a) \div b)
TruncMod(a, b) == a - b * TruncDiv(a, b)

Digit(d) == CASE d = 0 -> "0" [] d = 1 -> "1" [] d = 2 -> "2" [] d = 3 -> "3"
              [] d = 4 -> "4" [] d = 5 -> "5" [] d = 6 -> "6" [] d = 7 -> "7"
              [] d = 8 -> "8" [] d = 9 -> "9"

RECURSIVE Digits(_)
Digits(n) == IF n < 10 THEN <<Digit(n)>> ELSE Append(Digits(n \div 10), Digit(n % 10))

\* fmt's %02d
Pad2(n) ==
    IF n < 0 THEN <<"-">> \o Digits(-n)
    ELSE IF n < 10 THEN <<"0">> \o Digits(n)
    ELSE Digits(n)

formatTime(seconds) ==
    Pad2(TruncDiv(seconds, 60)) \o <<":">> \o Pad2(TruncMod(seconds, 60))

(***************************************************************************)
(* Layout: getTerminalSize                                                 *)
(***************************************************************************)
HAligns == {"left", "center", "right"}
VAligns == {"top", "center", "bottom"}

getTerminalSizeFloor(b, size, hAlign, vAlign) ==
    LET width == size[1]
        height == size[2]
    IN [width |-> width, height |-> height,
        startX |-> CASE hAlign = "left" -> margin
                     [] hAlign = "right" -> width - minWidth - margin
                     [] OTHER -> (width - minWidth) \div 2,
        startY |-> CASE vAlign = "top" -> margin
                     [] vAlign = "bottom" -> height - contentHeight - margin
                     [] OTHER -> (height - contentHeight) \div 2]

\* main.go switches on the alignment with center as the default case;
\* part_000 starts from center/bottom and overrides.
getTerminalSize(b, size, hAlign, vAlign) ==
    LET width == size[1]
        height == size[2]
    IN IF b = "main.go"
       THEN [width |-> width, height |-> height,
             startX |-> CASE hAlign = "left" -> margin
                          [] hAlign = "right" -> width - minWidth - margin
                          [] OTHER -> TruncDiv(width - minWidth, 2),
             startY |-> CASE vAlign = "top" -> margin
                          [] vAlign = "bottom" -> height - contentHeight - margin
                          [] OTHER -> TruncDiv(height - contentHeight, 2)]
       ELSE [width |-> width, height |-> height,
             startX |-> IF hAlign = "left" THEN margin
                        ELSE IF hAlign = "right" THEN width - minWidth - margin
                        ELSE TruncDiv(width - minWidth, 2),
             startY |-> IF vAlign = "top" THEN margin
                        ELSE IF vAlign = "center"
                             THEN TruncDiv(height - contentHeight, 2)
                        ELSE height - contentHeight - margin]

NoTerm == [width |-> 0, height |-> 0, startX |-> 0, startY |-> 0]

(***************************************************************************)
(* Renderer: drawProgressBar                                               *)
(***************************************************************************)
Filled == "="
Empty == "-"

\* Go leaves int(f) implementation-dependent when f is NaN or infinite: the
\* compilers in use give the most negative int, zero or the most positive int.
\* Only the sign matters to the clamp that follows, so one value below 0 and
\* one above the bar width stand for the two extremes.
ImplementationDependentInts == {-(BarWidth + 1), 0, BarWidth + 1}

Clamp(p) == IF p < 0 THEN 0 ELSE IF p > BarWidth THEN BarWidth ELSE p

\* int(float64(Position) / float64(Length) * float64(width)): the conversion
\* truncates toward zero.  For the lengths and positions of this model the
\* float64 product truncates to the same integer as the exact quotient.
Scaled(position, length) == TruncDiv(position * BarWidth, length)

\* The values progress can have after the clamp.  main.go guards the
\* division with Length > 0; part_000 divides unguarded (0/0 is NaN, x/0 is
\* an infinity) and clamps what the conversion gives.
ProgressValues(b, position, length) ==
    IF b = "main.go"
    THEN IF length > 0 THEN {Clamp(Scaled(position, length))} ELSE {0}
    ELSE IF length # 0 THEN {Clamp(Scaled(position, length))}
         ELSE {Clamp(p) : p \in ImplementationDependentInts}

Bar(progress) == Repeat(Filled, progress) \o Repeat(Empty, BarWidth - progress)

TimeText(position, length) == formatTime(position) \o <<"/">> \o formatTime(length)

(***************************************************************************)
(* Metadata Source Adapter: getMetadata                                    *)
(***************************************************************************)
\* What the player returns on one tick.  fault names what is wrong with the
\* reply, "none" for a well-formed one.
Faults == {"none", "metadataBusError", "badShape", "positionBusError",
           "badLengthType", "badPositionType", "badArtistType"}

Quoted(s) == <<Quote>> \o s \o <<Quote>>

RawCDN == Quoted(CDNPrefix \o <<"a">>)
RawFile == Quoted(FilePrefix \o <<"/", "p">>)
RawOther == Quoted(<<"s", "p", "o", "t", ":", "x">>)

\* A 64-bit count of microseconds is written base + off, with base 0 or
\* 2^64 and off an integer of the model: off and 2^64 + off (off < 0) are
\* the values at the two ends of the uint64 range.
Micros(off) == [base |-> "0", off |-> off]
TopMicros(off) == [base |-> "2^64", off |-> off]

\* title, artist list, length and position in microseconds (each with the
\* integer type it arrives as), whether the dictionary has the key
\* mpris:artUrl, and the art field as Variant.String() gives it
Track1 == [title |-> <<"A", "a">>, artists |-> <<<<"X">>>>,
           length |-> Micros(200 * UsPerSecond), lengthType |-> "uint64",
           position |-> Micros(50 * UsPerSecond), positionType |-> "int64",
           hasArt |-> TRUE, artUrl |-> RawCDN]
Track2 == [title |-> <<"B">>, artists |-> <<>>,
           length |-> Micros(0), lengthType |-> "int64",
           position |-> Micros(7 * UsPerSecond), positionType |-> "int64",
           hasArt |-> TRUE, artUrl |-> RawFile]
Track3 == [title |-> <<"A", "a">>, artists |-> <<<<"X">>>>,
           length |-> Micros(200 * UsPerSecond), lengthType |-> "uint64",
           position |-> Micros(50 * UsPerSecond), positionType |-> "int64",
           hasArt |-> TRUE, artUrl |-> RawOther]
Track4 == [title |-> <<"A", "a">>, artists |-> <<<<"X">>>>,
           length |-> Micros(200 * UsPerSecond), lengthType |-> "uint64",
           position |-> Micros(50 * UsPerSecond), positionType |-> "int64",
           hasArt |-> FALSE, artUrl |-> <<>>]
Tracks == {Track1, Track2, Track3, Track4}

Replies == {[fault |-> "none", track |-> t] : t \in Tracks}
           \cup {[fault |-> f, track |-> Track1] : f \in Faults \ {"none"}}

\* The replies a build is run against.  main.go looks the art field up with
\* the ok form.  part_000 calls String() on whatever the lookup gives, for
\* an absent key the zero Variant: what the dbus library does with it is not
\* in the repository, so part_000 is run against replies that carry the key.
Carried(b, replies) ==
    IF b = "main.go" THEN replies ELSE {reply \in replies : reply.track.hasArt}

RepliesOf(b) == Carried(b, Replies)

\* The art reference of a raw art field: quotes stripped, the CDN form kept,
\* the file:// form cut down to its path, anything else dropped.
NormalizeArtKeepAll(rawURL) == Trim(rawURL, Quote)

NormalizeArt(rawURL) ==
    LET raw == Trim(rawURL, Quote)
    IN IF HasPrefix(raw, CDNPrefix) THEN raw
       ELSE IF HasPrefix(raw, FilePrefix) THEN TrimPrefix(raw, FilePrefix)
       ELSE <<>>

\* int64(v) of a value delivered as int64 or uint64: the 64 low bits read
\* as a signed number.  off is within the int64 range, so it is the result
\* for off and for 2^64 + off alike.
AsInt64(v) == v.off

NoMetadata == [Title |-> <<>>, Artist |-> <<>>, Length |-> 0, Position |-> 0,
               ArtURL |-> <<>>]

MetadataOf(t, length, pos) ==
    [Title |-> t.title,
     Artist |-> IF Len(t.artists) > 0 THEN t.artists[1] ELSE UnknownArtist,
     Length |-> TruncDiv(length, UsPerSecond),
     Position |-> TruncDiv(pos, UsPerSecond),
     ArtURL |-> IF t.hasArt THEN NormalizeArt(t.artUrl) ELSE <<>>]

\* What a call of getMetadata comes to: a record ("ok"), an error, or a
\* panic of the goroutine.
Ok(md) == [status |-> "ok", md |-> md]
Error == [status |-> "error", md |-> NoMetadata]
Panic == [status |-> "panic", md |-> NoMetadata]

\* main.go checks every query and every type assertion and returns an error.
\* part_000 checks the first query only: it asserts the dictionary and the
\* artist list without the ok form (a panic when the type is another one),
\* drops the error of the position query and leaves a number of an unknown
\* type at zero.
getMetadata(b, reply) ==
    LET t == reply.track
        f == reply.fault
    IN IF b = "main.go"
       THEN IF f = "none"
            THEN Ok(MetadataOf(t, AsInt64(t.length), AsInt64(t.position)))
            ELSE Error
       ELSE CASE f = "metadataBusError" -> Error
              [] f \in {"badShape", "badArtistType"} -> Panic
              [] OTHER ->
                   Ok(MetadataOf(t,
                        IF f = "badLengthType" THEN 0 ELSE AsInt64(t.length),
                        IF f \in {"positionBusError", "badPositionType"}
                        THEN 0 ELSE AsInt64(t.position)))

(***************************************************************************)
(* Keyboard: handleKeyboard                                                *)
(***************************************************************************)
KeyEvent(key, ch) == [Type |-> "EventKey", Key |-> key, Ch |-> ch]

ArrowKeys == {"KeyArrowUp", "KeyArrowDown", "KeyArrowLeft", "KeyArrowRight"}

\* termbox delivers a key event with either Key or Ch set.
Events == {KeyEvent(k, "") : k \in ArrowKeys \cup {"KeyEsc"}}
          \cup {KeyEvent("", c) : c \in {"c", "q", "x"}}
          \cup {[Type |-> "EventResize", Key |-> "", Ch |-> ""]}

\* The input goroutine blocked in termbox.PollEvent, with nothing to send.
Polling == [Type |-> "none", Key |-> "", Ch |-> ""]

IsAlignKey(e) == e.Type = "EventKey" /\ (e.Key \in ArrowKeys \/ e.Ch = "c")
IsQuitKey(e) == e.Type = "EventKey" /\ e.Ch = "q"

handleKeyboardBothAxes(b, hAlign, vAlign, event) ==
    CASE event.Key = "KeyArrowUp" -> [h |-> "center", v |-> "top", redraw |-> TRUE]
      [] event.Key = "KeyArrowDown" -> [h |-> "center", v |-> "bottom", redraw |-> TRUE]
      [] event.Key = "KeyArrowLeft" -> [h |-> "left", v |-> "center", redraw |-> TRUE]
      [] event.Key = "KeyArrowRight" -> [h |-> "right", v |-> "center", redraw |-> TRUE]
      [] OTHER -> IF event.Ch = "c"
                  THEN [h |-> "center", v |-> "center", redraw |-> TRUE]
                  ELSE [h |-> hAlign, v |-> vAlign, redraw |-> FALSE]

handleKeyboardAnyKey(b, hAlign, vAlign, event) ==
    CASE event.Key = "KeyArrowUp" -> [h |-> hAlign, v |-> "top", redraw |-> TRUE]
      [] event.Key = "KeyArrowDown" -> [h |-> hAlign, v |-> "bottom", redraw |-> TRUE]
      [] event.Key = "KeyArrowLeft" -> [h |-> "left", v |-> vAlign, redraw |-> TRUE]
      [] event.Key = "KeyArrowRight" -> [h |-> "right", v |-> vAlign, redraw |-> TRUE]
      [] OTHER -> IF event.Ch = "c"
                  THEN [h |-> "center", v |-> "center", redraw |-> TRUE]
                  ELSE [h |-> hAlign, v |-> vAlign, redraw |-> TRUE]

\* The new alignment and whether the caller is to redraw.  main.go switches
\* on the key and then tests the character; part_000 tests the character in
\* the default case of the switch.
handleKeyboard(b, hAlign, vAlign, event) ==
    IF b = "main.go"
    THEN LET k == CASE event.Key = "KeyArrowUp" ->
                         [h |-> hAlign, v |-> "top", redraw |-> TRUE]
                     [] event.Key = "KeyArrowDown" ->
                         [h |-> hAlign, v |-> "bottom", redraw |-> TRUE]
                     [] event.Key = "KeyArrowLeft" ->
                         [h |-> "left", v |-> vAlign, redraw |-> TRUE]
                     [] event.Key = "KeyArrowRight" ->
                         [h |-> "right", v |-> vAlign, redraw |-> TRUE]
                     [] OTHER -> [h |-> hAlign, v |-> vAlign, redraw |-> FALSE]
         IN IF event.Ch = "c"
            THEN [h |-> "center", v |-> "center", redraw |-> TRUE]
            ELSE k
    ELSE CASE event.Key = "KeyArrowUp" -> [h |-> hAlign, v |-> "top", redraw |-> TRUE]
           [] event.Key = "KeyArrowDown" ->
               [h |-> hAlign, v |-> "bottom", redraw |-> TRUE]
           [] event.Key = "KeyArrowLeft" -> [h |-> "left", v |-> vAlign, redraw |-> TRUE]
           [] event.Key = "KeyArrowRight" ->
               [h |-> "right", v |-> vAlign, redraw |-> TRUE]
           [] OTHER -> IF event.Ch = "c"
                       THEN [h |-> "center", v |-> "center", redraw |-> TRUE]
                       ELSE [h |-> hAlign, v |-> vAlign, redraw |-> FALSE]

(***************************************************************************)
(* Artwork Pipeline: downloadArtwork and displayImage                      *)
(***************************************************************************)
ImagePath == "current_artwork.png"

\* What the file system, the network and the installation do to one fetch.
LocalScenarios == {"ok", "empty", "openError", "createError", "copyError"}
RemoteScenarios == {"ok", "empty", "requestError", "http204", "http404",
                    "createError", "copyError"}

IsLocal(artURL) == HasPrefix(artURL, <<"/">>)

ScenariosOf(artURL) == IF IsLocal(artURL) THEN LocalScenarios ELSE RemoteScenarios

\* path and err are the results; written says what the call left in the
\* cache slot: "nothing", "image" (the bytes of the artwork), "empty" (zero
\* bytes), "partial" (a copy cut short) or "errorPage" (the body of a
\* response that carries no image).
Fetched(written) == [path |-> ImagePath, err |-> FALSE, written |-> written]
FetchFailed(written) == [path |-> "", err |-> TRUE, written |-> written]

downloadArtwork(b, artURL, scen) ==
    IF b = "main.go"
    THEN IF artURL = <<>> THEN FetchFailed("nothing")
         ELSE IF IsLocal(artURL)
         THEN CASE scen = "openError" -> FetchFailed("nothing")
                [] scen = "createError" -> FetchFailed("nothing")
                [] scen = "copyError" -> FetchFailed("partial")
                [] scen = "empty" -> Fetched("empty")
                [] OTHER -> Fetched("image")
         ELSE CASE scen = "requestError" -> FetchFailed("nothing")
                [] scen \in {"http204", "http404"} -> FetchFailed("nothing")
                [] scen = "createError" -> FetchFailed("nothing")
                [] scen = "copyError" -> FetchFailed("partial")
                [] scen = "empty" -> Fetched("empty")
                [] OTHER -> Fetched("image")
    ELSE IF artURL = <<>> THEN [path |-> "", err |-> FALSE, written |-> "nothing"]
         ELSE IF IsLocal(artURL)
         THEN CASE scen = "openError" ->
                       \* the error of os.Open is not looked at: the slot is
                       \* created and the copy from the invalid file fails
                       [path |-> ImagePath, err |-> TRUE, written |-> "empty"]
                [] scen = "createError" -> FetchFailed("nothing")
                [] scen = "copyError" ->
                       [path |-> ImagePath, err |-> TRUE, written |-> "partial"]
                [] scen = "empty" -> Fetched("empty")
                [] OTHER -> Fetched("image")
         ELSE CASE scen = "requestError" -> FetchFailed("nothing")
                [] scen = "createError" -> FetchFailed("nothing")
                [] scen = "copyError" ->
                       [path |-> ImagePath, err |-> TRUE, written |-> "partial"]
                [] scen \in {"empty", "http204"} -> Fetched("empty")
                [] scen = "http404" -> Fetched("errorPage")
                [] OTHER -> Fetched("image")

\* Whether displayImage gets as far as running the renderer.  main.go
\* refuses an empty path and an empty file first; both builds need chafa.
displayImageRuns(b, imagePath, written, chafaInstalled) ==
    IF b = "main.go"
    THEN imagePath # "" /\ written # "empty" /\ chafaInstalled
    ELSE chafaInstalled

(***************************************************************************)
(* The screen                                                              *)
(* One layer per origin written to since the last clear: the text of the   *)
(* title and artist rows (from the text column on), the fill of the bar    *)
(* row, the time label, and the reference whose image the renderer drew.   *)
(***************************************************************************)
NoLayer == [header |-> <<>>, title |-> <<>>, artist |-> <<>>, fill |-> 0,
            time |-> <<>>, art |-> <<>>]

EmptyScreen == [o \in {} |-> NoLayer]

Origin(t) == <<t.startX, t.startY>>

LayerAt(scr, o) == IF o \in DOMAIN scr THEN scr[o] ELSE NoLayer

\* A string printed over a row replaces the cells it covers only.
Overwrite(row, text) == text \o SubSeq(row, Len(text) + 1, Len(row))

Put(scr, o, layer) == [p \in DOMAIN scr \cup {o} |-> IF p = o THEN layer ELSE scr[p]]

\* The text rows and the progress bar of one tick.  The bar row and the
\* time row are blanked over 60 columns before they are drawn, so they show
\* what this tick drew and nothing else.
DrawFrame(scr, t, md, progress) ==
    LET old == LayerAt(scr, Origin(t))
    IN Put(scr, Origin(t),
           [header |-> Overwrite(old.header, HeaderText),
            title |-> Overwrite(old.title, md.Title),
            artist |-> Overwrite(old.artist, <<"b", "y", " ">> \o md.Artist),
            fill |-> progress,
            time |-> TimeText(md.Position, md.Length),
            art |-> old.art])

DrawArt(scr, t, ref) ==
    Put(scr, Origin(t), [LayerAt(scr, Origin(t)) EXCEPT !.art = ref])

(***************************************************************************)
(* The event loop: SpotifyDisplay.Run, and main around it                  *)
(***************************************************************************)
Running == {"select", "metadata", "artwork"}

MaxRun == 2         \* run.len counts up to MaxRun

NoRef == <<"none">>
NoRun == [ref |-> NoRef, len |-> 0]
NotForced == [state |-> "no", cleared |-> <<>>]
NoFetch == [ref |-> NoRef, before |-> <<>>, result |-> "none"]
NoProbe == [fn |-> "none"]

\* The latest getMetadata result with the fault and the art field of the
\* reply it came from.
NoArt == [present |-> FALSE, raw |-> <<>>]
NotFetched == [status |-> "none", md |-> NoMetadata, fault |-> "none", art |-> NoArt]
Fetch(r, reply) ==
    [status |-> r.status, md |-> r.md, fault |-> reply.fault,
     art |-> [present |-> reply.track.hasArt, raw |-> reply.track.artUrl]]

Init ==
    /\ build \in Builds
    /\ pc = "start"
    /\ horizontalAlign = "center"
    /\ verticalAlign = "bottom"
    /\ currentArtURL = <<>>
    /\ cursorVisible = TRUE
    /\ termboxOpen = FALSE
    /\ logOpen = FALSE
    /\ screen = EmptyScreen
    /\ producer = Polling
    /\ sigChan = FALSE
    /\ term = NoTerm
    /\ metadata = NotFetched
    /\ exitCause = ""
    /\ run = NoRun
    /\ forced = NotForced
    /\ ignored = FALSE
    /\ fetch = NoFetch
    /\ shown = FALSE
    /\ probe = NoProbe

\* The terminal after the deferred calls of Run: showCursor, termbox.Close
\* and, once the log file was opened, logFile.Close.
DeferredWithoutClose ==
    [cursorVisible |-> TRUE, termboxOpen |-> termboxOpen, logOpen |-> logOpen]
Deferred == [cursorVisible |-> TRUE, termboxOpen |-> FALSE, logOpen |-> FALSE]

\* Run returns (or unwinds) with its deferred calls.  The history variables
\* end with the loop.
Leave(cause) ==
    /\ pc' = "exited"
    /\ exitCause' = cause
    /\ run' = NoRun
    /\ forced' = NotForced
    /\ ignored' = FALSE
    /\ fetch' = NoFetch
    /\ shown' = FALSE
    /\ cursorVisible' = Deferred.cursorVisible
    /\ termboxOpen' = Deferred.termboxOpen
    /\ logOpen' = Deferred.logOpen

\* return nil: the deferred calls, then main clears the screen and shows
\* the cursor.
ReturnNil(cause) ==
    /\ Leave(cause)
    /\ screen' = EmptyScreen

\* Run up to the loop: termbox.Init, hideCursor, clearScreen, the log file
\* (main.go), the input goroutine, the ticker and signal.Notify.
Start(initOk, logOk) ==
    /\ pc = "start"
    /\ IF ~initOk
       THEN /\ pc' = "exited"
            /\ exitCause' = "termboxInitError"
            /\ UNCHANGED <<cursorVisible, termboxOpen, logOpen, screen, run,
                           forced, ignored, fetch, shown>>
       ELSE IF build = "main.go" /\ ~logOk
       THEN /\ Leave("logOpenError")
            /\ screen' = EmptyScreen
       ELSE /\ pc' = "select"
            /\ termboxOpen' = TRUE
            /\ cursorVisible' = FALSE
            /\ screen' = EmptyScreen
            /\ logOpen' = (build = "main.go")
            /\ UNCHANGED <<exitCause, run, forced, ignored, fetch, shown>>
    /\ UNCHANGED <<build, horizontalAlign, verticalAlign, currentArtURL, producer,
                   sigChan, term, metadata, probe>>

\* The input goroutine: PollEvent returns e and the goroutine blocks on the
\* send to eventQueue.
InputArrives(e) ==
    /\ pc \in Running
    /\ producer = Polling
    /\ producer' = e
    /\ UNCHANGED <<build, pc, horizontalAlign, verticalAlign, currentArtURL,
                   cursorVisible, termboxOpen, logOpen, screen, sigChan, term,
                   metadata, exitCause, run, forced, ignored, fetch, shown,
                   probe>>

\* SIGINT or SIGTERM: signal.Notify puts it in sigChan unless one waits there.
SignalArrives ==
    /\ pc \in Running
    /\ ~sigChan
    /\ sigChan' = TRUE
    /\ UNCHANGED <<build, pc, horizontalAlign, verticalAlign, currentArtURL,
                   cursorVisible, termboxOpen, logOpen, screen, producer, term,
                   metadata, exitCause, run, forced, ignored, fetch, shown,
                   probe>>

SelectingWhileFetching == pc \in {"select", "artwork"}
\* The loop is at its select statement: Run is one goroutine, and while it
\* is inside a case (in getMetadata, downloadArtwork or displayImage) it
\* receives from no channel.
Selecting == pc = "select"

AfterRedrawKeepCache == [screen |-> EmptyScreen, currentArtURL |-> currentArtURL]
\* clearScreen(); sd.currentArtURL = ""
AfterRedraw == [screen |-> EmptyScreen, currentArtURL |-> <<>>]

\* case event := <-eventQueue
HandleEvent ==
    /\ Selecting
    /\ producer # Polling
    /\ producer' = Polling
    /\ LET event == producer
           k == handleKeyboard(build, horizontalAlign, verticalAlign, event)
       IN IF event.Type = "EventKey" /\ event.Ch = "q"
          THEN /\ ReturnNil("quit")
               /\ UNCHANGED <<horizontalAlign, verticalAlign, currentArtURL>>
          ELSE IF event.Type = "EventKey"
          THEN /\ horizontalAlign' = k.h
               /\ verticalAlign' = k.v
               /\ IF k.redraw
                  THEN /\ screen' = AfterRedraw.screen
                       /\ currentArtURL' = AfterRedraw.currentArtURL
                       /\ run' = NoRun
                       /\ forced' = [state |-> "pending", cleared |-> currentArtURL]
                       /\ ignored' = FALSE
                  ELSE /\ ignored' = TRUE
                       /\ UNCHANGED <<screen, currentArtURL, run, forced>>
               /\ UNCHANGED <<pc, exitCause, cursorVisible, termboxOpen, logOpen,
                              fetch, shown>>
          ELSE /\ ignored' = TRUE
               /\ UNCHANGED <<horizontalAlign, verticalAlign, currentArtURL, run,
                              forced, screen, pc, exitCause, cursorVisible,
                              termboxOpen, logOpen, fetch, shown>>
    /\ UNCHANGED <<build, sigChan, term, metadata, probe>>

\* case <-sigChan
HandleSignalDropped ==
    /\ Selecting
    /\ sigChan
    /\ sigChan' = FALSE
    /\ UNCHANGED <<build, pc, horizontalAlign, verticalAlign, currentArtURL,
                   cursorVisible, termboxOpen, logOpen, screen, producer, term,
                   metadata, exitCause, run, forced, ignored, fetch, shown,
                   probe>>

HandleSignal ==
    /\ Selecting
    /\ sigChan
    /\ sigChan' = FALSE
    /\ ReturnNil("signal")
    /\ UNCHANGED <<build, horizontalAlign, verticalAlign, currentArtURL, producer,
                   term, metadata, probe>>

\* case <-ticker.C (the ticker fires every 100 ms, so a tick can be there
\* whenever the loop selects), up to the metadata query: the loop blocks in
\* getMetadata.
TickStart(size) ==
    /\ Selecting
    /\ term' = getTerminalSize(build, size, horizontalAlign, verticalAlign)
    /\ metadata' = NotFetched
    /\ pc' = "metadata"
    /\ ignored' = FALSE
    /\ fetch' = [fetch EXCEPT
                   !.result = IF @ \in {"fetchFailed", "renderFailed"}
                              THEN "failed" ELSE @]
    /\ UNCHANGED <<build, horizontalAlign, verticalAlign, currentArtURL,
                   cursorVisible, termboxOpen, logOpen, screen, producer, sigChan,
                   exitCause, run, forced, shown, probe>>

ArtworkDueAlways(md) == md.ArtURL # <<>>
\* if metadata.ArtURL != sd.currentArtURL && metadata.ArtURL != ""
ArtworkDue(md) == md.ArtURL # currentArtURL /\ md.ArtURL # <<>>

CachedReferenceKept(md) == currentArtURL
\* sd.currentArtURL = metadata.ArtURL
CachedReference(md) == md.ArtURL

Min(a, b) == IF a < b THEN a ELSE b

\* The player answers: the rest of getMetadata, the text rows, the progress
\* bar, and the test whether the artwork is due.
MetadataReturns(reply) ==
    /\ pc = "metadata"
    /\ LET r == getMetadata(build, reply)
       IN /\ metadata' = Fetch(r, reply)
          /\ CASE r.status = "error" ->
                    /\ pc' = "select"
                    /\ term' = NoTerm
                    /\ UNCHANGED <<currentArtURL, screen, exitCause, cursorVisible,
                                   termboxOpen, logOpen, run, forced, ignored,
                                   fetch, shown>>
               [] r.status = "panic" ->
                    /\ Leave("panic")
                    /\ term' = NoTerm
                    /\ UNCHANGED <<currentArtURL, screen>>
               [] OTHER ->
                    /\ \E progress \in
                           ProgressValues(build, r.md.Position, r.md.Length) :
                           screen' = DrawFrame(screen, term, r.md, progress)
                    /\ run' = [ref |-> r.md.ArtURL,
                               len |-> IF run.ref = r.md.ArtURL
                                       THEN Min(run.len + 1, MaxRun) ELSE 1]
                    /\ shown' = TRUE
                    /\ IF ArtworkDue(r.md)
                       THEN /\ currentArtURL' = CachedReference(r.md)
                            /\ fetch' = [ref |-> r.md.ArtURL,
                                         before |-> currentArtURL,
                                         result |-> "running"]
                            /\ forced' =
                                 [state |-> IF /\ forced.state = "pending"
                                               /\ forced.cleared = r.md.ArtURL
                                            THEN "rerun" ELSE "no",
                                  cleared |-> <<>>]
                            /\ pc' = "artwork"
                            /\ UNCHANGED term
                       ELSE /\ pc' = "select"
                            /\ term' = NoTerm
                            /\ UNCHANGED <<currentArtURL, forced, fetch>>
                    /\ UNCHANGED <<exitCause, cursorVisible, termboxOpen, logOpen,
                                   ignored>>
    /\ UNCHANGED <<build, horizontalAlign, verticalAlign, producer, sigChan,
                   probe>>

\* downloadArtwork and displayImage come back: the image is on the screen
\* when the fetch succeeded, the renderer ran and it exited with 0 (which it
\* does for an image only).
ArtworkReturns(scen, chafaInstalled, chafaOk) ==
    /\ pc = "artwork"
    /\ scen \in ScenariosOf(metadata.md.ArtURL)
    /\ LET d == downloadArtwork(build, metadata.md.ArtURL, scen)
           runs == /\ ~d.err
                   /\ displayImageRuns(build, d.path, d.written, chafaInstalled)
           drawn == runs /\ chafaOk /\ d.written = "image"
       IN /\ screen' = IF drawn
                       THEN DrawArt(screen, term, metadata.md.ArtURL)
                       ELSE screen
          /\ fetch' = IF drawn THEN NoFetch
                      ELSE [fetch EXCEPT
                              !.before = <<>>,
                              !.result = IF d.err THEN "fetchFailed"
                                         ELSE "renderFailed"]
    /\ pc' = "select"
    /\ term' = NoTerm
    /\ forced' = NotForced
    /\ UNCHANGED <<build, horizontalAlign, verticalAlign, currentArtURL,
                   cursorVisible, termboxOpen, logOpen, producer, sigChan,
                   metadata, exitCause, run, ignored, shown, probe>>

Next ==
    \/ \E initOk \in BOOLEAN, logOk \in BOOLEAN : Start(initOk, logOk)
    \/ \E e \in Events : InputArrives(e)
    \/ SignalArrives
    \/ HandleEvent
    \/ HandleSignal
    \/ \E size \in TermSizes : TickStart(size)
    \/ \E reply \in RepliesOf(build) : MetadataReturns(reply)
    \/ \E scen \in LocalScenarios \cup RemoteScenarios,
          chafaInstalled \in BOOLEAN, chafaOk \in BOOLEAN :
          ArtworkReturns(scen, chafaInstalled, chafaOk)

Spec == Init /\ [][Next]_vars

\* The loop under the scheduling the Go runtime gives it, with fewer inputs:
\* a call the loop is blocked in returns (weak fairness), and a select that
\* finds a channel ready again and again takes it in the end, because it
\* picks among the ready cases at random (strong fairness).  Keys and
\* signals come when the user sends them.
LiveEvents == {KeyEvent("", "q"), KeyEvent("KeyArrowLeft", ""),
               [Type |-> "EventResize", Key |-> "", Ch |-> ""]}
LiveReplies == {[fault |-> "none", track |-> Track1],
                [fault |-> "none", track |-> Track3],
                [fault |-> "metadataBusError", track |-> Track1],
                [fault |-> "badShape", track |-> Track1]}
LiveScenarios == {"ok", "createError"}

MetadataCompletes == \E reply \in Carried(build, LiveReplies) : MetadataReturns(reply)
ArtworkCompletes ==
    \E scen \in LiveScenarios, chafaOk \in BOOLEAN : ArtworkReturns(scen, TRUE, chafaOk)

NextLive ==
    \/ \E initOk \in BOOLEAN, logOk \in BOOLEAN : Start(initOk, logOk)
    \/ \E e \in LiveEvents : InputArrives(e)
    \/ SignalArrives
    \/ HandleEvent
    \/ HandleSignal
    \/ \E size \in TermSizes : TickStart(size)
    \/ MetadataCompletes
    \/ ArtworkCompletes

Fairness ==
    /\ WF_vars(MetadataCompletes)
    /\ WF_vars(ArtworkCompletes)
    /\ SF_vars(HandleEvent)
    /\ SF_vars(HandleSignal)

LiveSpec == Init /\ [][NextLive]_vars /\ Fairness

(***************************************************************************)
(* Specifications of the pure functions: Init draws the inputs, the one    *)
(* action applies the function and keeps what it returned in probe.        *)
(***************************************************************************)
loopVars == <<build, pc, horizontalAlign, verticalAlign, currentArtURL,
              cursorVisible, termboxOpen, logOpen, screen, producer, sigChan,
              term, metadata, exitCause, run, forced, ignored, fetch, shown>>

InitProbe ==
    /\ build \in Builds
    /\ pc = "probe"
    /\ currentArtURL = <<>>
    /\ cursorVisible = TRUE
    /\ termboxOpen = FALSE
    /\ logOpen = FALSE
    /\ screen = EmptyScreen
    /\ producer = Polling
    /\ sigChan = FALSE
    /\ term = NoTerm
    /\ metadata = NotFetched
    /\ exitCause = ""
    /\ run = NoRun
    /\ forced = NotForced
    /\ ignored = FALSE
    /\ fetch = NoFetch
    /\ shown = FALSE

InitGeom ==
    /\ InitProbe
    /\ horizontalAlign \in HAligns
    /\ verticalAlign \in VAligns
    /\ \E w \in 0..MaxCols, h \in 0..MaxRows :
           probe = [fn |-> "getTerminalSize", size |-> <<w, h>>, done |-> FALSE,
                    out |-> NoTerm]

CallGetTerminalSize ==
    /\ pc = "probe"
    /\ probe.fn = "getTerminalSize"
    /\ ~probe.done
    /\ probe' = [probe EXCEPT
                   !.done = TRUE,
                   !.out = getTerminalSize(build, probe.size, horizontalAlign,
                                           verticalAlign)]
    /\ UNCHANGED loopVars

NextGeom == CallGetTerminalSize

SpecGeom == InitGeom /\ [][NextGeom]_vars

InitBar ==
    /\ InitProbe
    /\ horizontalAlign = "center"
    /\ verticalAlign = "bottom"
    /\ \E position \in 0..MaxSeconds, length \in 0..MaxSeconds :
           probe = [fn |-> "drawProgressBar", position |-> position,
                    length |-> length, done |-> FALSE, progress |-> 0,
                    bar |-> <<>>]

CallDrawProgressBar ==
    /\ pc = "probe"
    /\ probe.fn = "drawProgressBar"
    /\ ~probe.done
    /\ \E progress \in ProgressValues(build, probe.position, probe.length) :
           probe' = [probe EXCEPT !.done = TRUE, !.progress = progress,
                                  !.bar = Bar(progress)]
    /\ UNCHANGED loopVars

NextBar == CallDrawProgressBar

SpecBar == InitBar /\ [][NextBar]_vars

\* Art fields: with and without a quote at either end, one of four heads
\* and one of five tails.
RawHeads == {<<>>, CDNPrefix, FilePrefix, <<"h", "t", "t", "p", ":", "/", "/">>}
RawTails == {<<>>, <<"/">>, <<"/", "p">>, <<"p">>, <<"h", "/", "p">>}
RawQuotes == {<<>>, <<Quote>>}
RawURLs == {lq \o h \o t \o rq : lq \in RawQuotes, h \in RawHeads,
                                 t \in RawTails, rq \in RawQuotes}

ArtTracks == {[Track1 EXCEPT !.artUrl = raw] : raw \in RawURLs} \cup {Track4}

\* Microsecond counts of either type: whole and broken seconds, negative
\* ones as int64 and the ones just below 2^64 as uint64.
Offsets == {0, UsPerSecond - 1, UsPerSecond + UsPerSecond \div 2, 200 * UsPerSecond}
NegOffsets == {-1, -(UsPerSecond + UsPerSecond \div 2)}
Counts == {[type |-> "int64", v |-> Micros(o)] : o \in Offsets \cup NegOffsets}
          \cup {[type |-> "uint64", v |-> Micros(o)] : o \in Offsets}
          \cup {[type |-> "uint64", v |-> TopMicros(o)] : o \in NegOffsets}

NumericTracks ==
    {[Track1 EXCEPT !.length = l.v, !.lengthType = l.type,
                    !.position = q.v, !.positionType = q.type] :
         l \in Counts, q \in Counts}

MetaReplies == {[fault |-> f, track |-> t] :
                    f \in Faults, t \in ArtTracks \cup NumericTracks}

InitMeta ==
    /\ InitProbe
    /\ horizontalAlign = "center"
    /\ verticalAlign = "bottom"
    /\ \E reply \in Carried(build, MetaReplies) :
           probe = [fn |-> "getMetadata", reply |-> reply, done |-> FALSE,
                    out |-> [status |-> "none", md |-> NoMetadata]]

CallGetMetadata ==
    /\ pc = "probe"
    /\ probe.fn = "getMetadata"
    /\ ~probe.done
    /\ probe' = [probe EXCEPT !.done = TRUE,
                              !.out = getMetadata(build, probe.reply)]
    /\ UNCHANGED loopVars

NextMeta == CallGetMetadata

SpecMeta == InitMeta /\ [][NextMeta]_vars

\* The references downloadArtwork is called with: every non-empty ArtURL
\* getMetadata makes of the art fields above.
FetchRefs == {NormalizeArt(raw) : raw \in RawURLs} \ {<<>>}

\* The HTTP status of the response in a remote scenario, 0 when the request
\* itself fails.
StatusOf(scen) ==
    CASE scen = "requestError" -> 0
      [] scen = "http204" -> 204
      [] scen = "http404" -> 404
      [] OTHER -> 200

InitFetch ==
    /\ InitProbe
    /\ horizontalAlign = "center"
    /\ verticalAlign = "bottom"
    /\ \E ref \in FetchRefs :
           \E scen \in ScenariosOf(ref) :
               probe = [fn |-> "downloadArtwork", artURL |-> ref, scen |-> scen,
                        done |-> FALSE, out |-> FetchFailed("nothing")]

CallDownloadArtwork ==
    /\ pc = "probe"
    /\ probe.fn = "downloadArtwork"
    /\ ~probe.done
    /\ probe' = [probe EXCEPT
                   !.done = TRUE,
                   !.out = downloadArtwork(build, probe.artURL, probe.scen)]
    /\ UNCHANGED loopVars

NextFetch == CallDownloadArtwork

SpecFetch == InitFetch /\ [][NextFetch]_vars

(***************************************************************************)
(* Properties                                                              *)
(***************************************************************************)
\* A step in which the player's answer arrives and getMetadata returns a
\* record.
SuccessfulTick == pc = "metadata" /\ metadata'.status = "ok"

\* A step that calls downloadArtwork.
FetchStarts == pc # "artwork" /\ pc' = "artwork"

\* A step in which the loop takes an event from eventQueue.
EventStep == pc = "select" /\ producer # Polling /\ producer' = Polling

\* C1: a tick whose metadata fetch succeeds starts the artwork pipeline if
\* and only if its art reference is non-empty and differs from
\* currentArtURL; no other step of the loop starts it.
C1_FetchIffDue ==
    [][/\ SuccessfulTick =>
            (FetchStarts <=> /\ metadata'.md.ArtURL # <<>>
                             /\ metadata'.md.ArtURL # currentArtURL)
       /\ ~SuccessfulTick => ~FetchStarts]_vars

C1_Witness ==
    /\ pc = "artwork"
    /\ metadata.status = "ok"
    /\ currentArtURL = metadata.md.ArtURL

\* C2 as claimed: in a run of successful ticks reporting the same non-empty
\* reference the fetch is started exactly once, on the first tick of the
\* run (the tick whose predecessor reported another reference).
C2_ExactlyOncePerRun ==
    [][(SuccessfulTick /\ metadata'.md.ArtURL # <<>>) =>
           (FetchStarts <=> run.ref # metadata'.md.ArtURL)]_vars

\* C2 as amended: in such a run the fetch is started at most once and on no
\* tick but the first; the first tick starts it exactly when the reference
\* differs from currentArtURL.
C2_AtMostOncePerRun ==
    [][(SuccessfulTick /\ metadata'.md.ArtURL # <<>>) =>
           /\ run.ref = metadata'.md.ArtURL => ~FetchStarts
           /\ run.ref # metadata'.md.ArtURL =>
                  (FetchStarts <=> metadata'.md.ArtURL # currentArtURL)]_vars

C2_Witness ==
    /\ pc = "select"
    /\ run.len >= 2
    /\ run.ref # <<>>
    /\ run.ref = currentArtURL

\* C3: a tick whose metadata fetch fails (a query of the bus fails, or the
\* reply has another shape or type than expected) writes nothing to the
\* terminal, leaves the alignment and currentArtURL as they are and returns
\* to the select.
C3_FailedFetchSkipsTick ==
    [][(pc = "metadata" /\ pc' # "metadata" /\ metadata'.fault # "none") =>
           /\ screen' = screen
           /\ horizontalAlign' = horizontalAlign
           /\ verticalAlign' = verticalAlign
           /\ currentArtURL' = currentArtURL
           /\ pc' = "select"]_vars

\* C4: the loop is left through the quit key or a signal only.
C4_OnlyQuitOrSignalEnds ==
    [][(pc \in Running /\ pc' \notin Running) =>
           exitCause' \in {"quit", "signal"}]_vars

\* C5: once Run was left after termbox.Init succeeded, the cursor is
\* visible, termbox is closed and the log file is closed.
C5_TeardownOnEveryExit ==
    (pc = "exited" /\ exitCause # "termboxInitError") =>
        cursorVisible /\ ~termboxOpen /\ ~logOpen

C5_Witness ==
    /\ pc = "exited"
    /\ exitCause = "signal"
    /\ metadata.status = "error"
    /\ currentArtURL # <<>>

\* C6: an arrow key sets its axis and leaves the other one, the center key
\* sets both to center, and both alignments stay within their three values.
C6_OneAxisPerKey ==
    [][/\ EventStep /\ producer.Type = "EventKey" /\ producer.Ch # "q" =>
            /\ producer.Key = "KeyArrowUp" =>
                   verticalAlign' = "top" /\ horizontalAlign' = horizontalAlign
            /\ producer.Key = "KeyArrowDown" =>
                   verticalAlign' = "bottom" /\ horizontalAlign' = horizontalAlign
            /\ producer.Key = "KeyArrowLeft" =>
                   horizontalAlign' = "left" /\ verticalAlign' = verticalAlign
            /\ producer.Key = "KeyArrowRight" =>
                   horizontalAlign' = "right" /\ verticalAlign' = verticalAlign
            /\ producer.Ch = "c" =>
                   horizontalAlign' = "center" /\ verticalAlign' = "center"
       /\ horizontalAlign' \in HAligns
       /\ verticalAlign' \in VAligns]_vars

C6_Witness ==
    /\ pc = "select"
    /\ horizontalAlign = "left"
    /\ verticalAlign = "top"

\* C7: an alignment key empties currentArtURL and clears the screen in its
\* own iteration; the next successful tick with a non-empty reference
\* starts the artwork pipeline, and the screen then holds frames at the
\* origin of the new alignment only.
C7_AlignmentForcesRedraw ==
    [][/\ (EventStep /\ IsAlignKey(producer)) =>
              currentArtURL' = <<>> /\ screen' = EmptyScreen
       /\ (SuccessfulTick /\ forced.state = "pending"
                          /\ metadata'.md.ArtURL # <<>>) =>
              /\ FetchStarts
              /\ Origin(term) \in DOMAIN screen'
              /\ DOMAIN screen' \subseteq
                     {Origin(getTerminalSize(build, size, horizontalAlign,
                                             verticalAlign)) : size \in TermSizes}]_vars

\* the fetch runs again for the reference the key cleared
C7_Witness ==
    /\ pc = "artwork"
    /\ forced.state = "rerun"
    /\ horizontalAlign = "right"

\* C8: an event that is no quit, arrow or center key changes neither the
\* alignment nor currentArtURL nor the screen and leaves the loop selecting;
\* the quit key changes neither the alignment nor currentArtURL.
C8_OtherEventsChangeNothing ==
    [][/\ (EventStep /\ ~IsAlignKey(producer) /\ ~IsQuitKey(producer)) =>
              /\ UNCHANGED <<horizontalAlign, verticalAlign, currentArtURL, screen>>
              /\ pc' = "select"
       /\ (EventStep /\ IsQuitKey(producer)) =>
              UNCHANGED <<horizontalAlign, verticalAlign, currentArtURL>>]_vars

C8_Witness ==
    /\ pc = "select"
    /\ ignored
    /\ currentArtURL # <<>>
    /\ \E o \in DOMAIN screen : screen[o].art # <<>>

\* q is d/2 truncated toward zero
IsHalfTruncated(d, q) ==
    IF d >= 0 THEN q >= 0 /\ 2 * q <= d /\ d < 2 * q + 2
    ELSE q <= 0 /\ 2 * q >= d /\ d > 2 * q - 2

\* C9: getTerminalSize gives margin for left and top, size - extent - margin
\* for right and bottom, and (size - extent)/2 truncated toward zero for
\* center, negative results included.
C9_OriginLaws ==
    (probe.fn = "getTerminalSize" /\ probe.done) =>
        LET w == probe.size[1]
            h == probe.size[2]
            o == probe.out
        IN /\ horizontalAlign = "left" => o.startX = margin
           /\ horizontalAlign = "right" => o.startX = w - minWidth - margin
           /\ horizontalAlign = "center" => IsHalfTruncated(w - minWidth, o.startX)
           /\ verticalAlign = "top" => o.startY = margin
           /\ verticalAlign = "bottom" => o.startY = h - contentHeight - margin
           /\ verticalAlign = "center" =>
                  IsHalfTruncated(h - contentHeight, o.startY)

\* a centered frame in a terminal an odd number of cells too small
C9_Witness ==
    /\ probe.fn = "getTerminalSize"
    /\ probe.done
    /\ horizontalAlign = "center"
    /\ verticalAlign = "center"
    /\ probe.size = <<minWidth - 5, contentHeight - 3>>
    /\ probe.out.startX = -2
    /\ probe.out.startY = -1

\* C10: the fill count is within 0..40, the bar has 40 glyphs (the fill
\* count filled, the rest empty), a position equal to a positive length
\* fills the bar, position 0 leaves it empty, and so does length 0.
C10_FillLaws ==
    (probe.fn = "drawProgressBar" /\ probe.done) =>
        /\ probe.progress \in 0..BarWidth
        /\ Len(probe.bar) = BarWidth
        /\ \A i \in 1..BarWidth :
               probe.bar[i] = IF i <= probe.progress THEN Filled ELSE Empty
        /\ (probe.length > 0 /\ probe.position = probe.length) =>
               probe.progress = BarWidth
        /\ probe.position = 0 => probe.progress = 0
        /\ probe.length = 0 => probe.progress = 0

\* An art field that is absent or, with its quotes stripped, starts with
\* neither the CDN prefix nor the file prefix.
Unrecognized(art) ==
    \/ ~art.present
    \/ LET raw == Trim(art.raw, Quote)
       IN ~HasPrefix(raw, CDNPrefix) /\ ~HasPrefix(raw, FilePrefix)

C11_WitnessOtherForm ==
    /\ pc = "select"
    /\ metadata.status = "ok"
    /\ metadata.art.present
    /\ Unrecognized(metadata.art)
    /\ currentArtURL # <<>>

\* A step in which downloadArtwork (and displayImage after it) returns.
FetchReturns == pc = "artwork" /\ pc' # "artwork"

\* C12 as claimed: when downloadArtwork fails, currentArtURL has after the
\* tick the value it had before the tick.
C12_CacheSetOnSuccessOnly ==
    [][(FetchReturns /\ fetch'.result = "fetchFailed") =>
           currentArtURL' = fetch.before]_vars

\* C12 as amended: currentArtURL takes a new non-empty value exactly in the
\* step that finds the artwork due, before downloadArtwork is called, and
\* keeps it when the call returns, with or without an error.
C12_CacheSetBeforeFetch ==
    [][/\ FetchStarts => currentArtURL' = metadata'.md.ArtURL
       /\ (currentArtURL' # currentArtURL /\ currentArtURL' # <<>>) => FetchStarts
       /\ FetchReturns => /\ currentArtURL' = currentArtURL
                          /\ currentArtURL' = fetch.ref]_vars

\* downloadArtwork failed and its reference is the cached one
C12_Witness ==
    /\ pc = "select"
    /\ fetch.result = "fetchFailed"
    /\ currentArtURL = fetch.ref

\* C13 as claimed: once the fetch or the render for a reference failed, no
\* tick starts a fetch for that reference again; the next fetch is for
\* another reference.
C13_NoRetryOfFailedReference ==
    [][(FetchStarts /\ fetch.result = "failed") =>
           metadata'.md.ArtURL # fetch.ref]_vars

\* C13 as amended: the same as long as no alignment key is handled; the key
\* empties currentArtURL, and the next successful tick fetches again.
C13_NoRetryUntilAlignmentKey ==
    [][(/\ FetchStarts
        /\ fetch.result = "failed"
        /\ forced.state # "pending") =>
           metadata'.md.ArtURL # fetch.ref]_vars

\* a later tick reported the reference of the failed fetch and left it
C13_Witness ==
    /\ pc = "select"
    /\ fetch.result = "failed"
    /\ run.ref = fetch.ref
    /\ run.len >= 2
    /\ metadata.status = "ok"

\* q is n/d rounded to a nearest integer (either neighbour at a tie)
IsNearest(q, n, d) ==
    /\ 2 * (q * d - n) <= d
    /\ 2 * (n - q * d) <= d

\* C14: for a positive length the fill count is position * 40 / length
\* rounded to the nearest integer and clamped to 0..40.
C14_FillIsRounded ==
    (probe.fn = "drawProgressBar" /\ probe.done /\ probe.length > 0) =>
        \E q \in 0..(BarWidth * probe.position) :
            /\ IsNearest(q, probe.position * BarWidth, probe.length)
            /\ probe.progress = Clamp(q)

\* C15: the ArtURL of every record getMetadata returns is empty, starts
\* with "/" or starts with the CDN prefix; for an art field with the file
\* prefix it is empty or a reference downloadArtwork takes for a local file.
C15_ReferenceForms ==
    (probe.fn = "getMetadata" /\ probe.done /\ probe.out.status = "ok") =>
        LET ref == probe.out.md.ArtURL
            art == probe.reply.track
        IN /\ \/ ref = <<>>
              \/ HasPrefix(ref, <<"/">>)
              \/ HasPrefix(ref, CDNPrefix)
           /\ (art.hasArt /\ HasPrefix(Trim(art.artUrl, Quote), FilePrefix)) =>
                  (ref = <<>> \/ IsLocal(ref))

\* s is the count v divided by 1,000,000, truncated.  The quotient of a
\* count at 2^64 + off lies above every integer of this model.
IsSecondsOf(s, v) == v.base = "0" /\ s = TruncDiv(v.off, UsPerSecond)

\* C16: a reply whose length and position are int64 or uint64 counts gives
\* a record with Length and Position >= 0 and equal to the counts divided
\* by 1,000,000 (truncated); a length or position of another type gives an
\* error.
C16_SecondsOfEitherType ==
    (probe.fn = "getMetadata" /\ probe.done) =>
        LET out == probe.out
            t == probe.reply.track
            f == probe.reply.fault
        IN /\ f = "none" =>
                  /\ out.status = "ok"
                  /\ out.md.Length >= 0
                  /\ out.md.Position >= 0
                  /\ IsSecondsOf(out.md.Length, t.length)
                  /\ IsSecondsOf(out.md.Position, t.position)
           /\ f \in {"badLengthType", "badPositionType"} =>
                  out.status = "error"

\* A step of the input goroutine or of signal.Notify.
ProducerStep ==
    \/ producer = Polling /\ producer' # Polling
    \/ ~sigChan /\ sigChan'

\* C17: a fetch starts from a tick only, with no other fetch running; while
\* downloadArtwork or displayImage runs the loop takes no event, no tick
\* and no signal, an event the input goroutine holds stays with it, and
\* the screen, the alignment and currentArtURL change in no step of the
\* input goroutine or of the signal delivery.
C17_FetchIsExclusive ==
    [][/\ FetchStarts => pc = "metadata" /\ fetch.result # "running"
       /\ pc = "artwork" =>
              /\ pc' \in {"artwork", "select"}
              /\ producer # Polling => producer' = producer
              /\ sigChan => sigChan'
              /\ UNCHANGED <<horizontalAlign, verticalAlign, currentArtURL>>
              /\ pc' = "artwork" => UNCHANGED <<screen, term, metadata>>
       /\ ProducerStep =>
              UNCHANGED <<screen, horizontalAlign, verticalAlign, currentArtURL,
                          cursorVisible, pc>>]_vars

\* a key and a signal wait while the fetch runs
C17_Witness ==
    /\ pc = "artwork"
    /\ producer # Polling
    /\ sigChan
    /\ fetch.result = "running"

\* C18: a signal that arrived while the loop runs, and a quit key the
\* input goroutine holds, each lead to the end of Run.
C18_ShutdownIsNotLost ==
    /\ (pc \in Running /\ sigChan) ~> (pc = "exited")
    /\ (pc \in Running /\ IsQuitKey(producer)) ~> (pc = "exited")

\* Run ended by the signal, with a key still held by the input goroutine
C18_Witness ==
    /\ pc = "exited"
    /\ exitCause = "signal"
    /\ metadata.status = "ok"
    /\ producer # Polling

\* The screen holds a frame.
HoldsFrame(scr) == \E o \in DOMAIN scr : scr[o].time # <<>>

\* C19: once a tick has drawn a frame, a tick that ends with an error of
\* getMetadata, of downloadArtwork or of the render leaves a frame on the
\* screen.
C19_ErrorLeavesLastFrame ==
    [][(/\ shown
        /\ \/ pc = "metadata" /\ metadata'.status = "error"
           \/ FetchReturns /\ fetch'.result \in {"fetchFailed", "renderFailed"}) =>
           HoldsFrame(screen')]_vars

\* C20: after a successful tick the rows at the tick's origin hold the
\* header, the title, the artist, the bar and the time label of the tick's
\* metadata and nothing else.
C20_RowsHoldCurrentTextOnly ==
    [][SuccessfulTick =>
           LET row == LayerAt(screen', Origin(term))
               md == metadata'.md
           IN /\ row.header = HeaderText
              /\ row.title = md.Title
              /\ row.artist = <<"b", "y", " ">> \o md.Artist
              /\ row.fill \in ProgressValues(build, md.Position, md.Length)
              /\ row.time = TimeText(md.Position, md.Length)]_vars

\* C21: for a remote reference, with a cache slot that can be created and
\* written, downloadArtwork returns an error and writes nothing exactly when
\* the request fails or the status is outside 200..299; for a status within
\* 200..299 it writes the body to the cache slot and returns its path.
C21_RemoteFetchByStatus ==
    (/\ probe.fn = "downloadArtwork" /\ probe.done
     /\ ~IsLocal(probe.artURL)
     /\ probe.scen \notin {"createError", "copyError"}) =>
        LET out == probe.out
            status == StatusOf(probe.scen)
            is2xx == status >= 200 /\ status <= 299
        IN /\ (out.err /\ out.written = "nothing") <=> ~is2xx
           /\ is2xx => /\ ~out.err
                       /\ out.path = ImagePath
                       /\ out.written \in {"image", "empty"}

====
